---- MODULE Spec2Model ----
(***************************************************************************)
(* Model of the command layer of percona-everest-cli:                      *)
(*   - delete.MySQL.Run      (src/pkg/delete/mysql.go, lines 1-74)         *)
(*   - provision.MySQL.Run   (src/pkg/delete/mysql.go, lines 75-229)       *)
(*   - list.Versions.Run and VersionsList.String (src/unnamed/part_000)    *)
(*   - password.Reset.Run    (src/pkg/password/reset.go)                   *)
(* Each command is an independent component; each has its own             *)
(* specification (SpecDelete, SpecProvision, SpecVersions, SpecReset) over *)
(* its own variables, the variables of the other commands staying idle.   *)
(*                                                                         *)
(* Conventions.                                                            *)
(*   A Go string whose characters the code (or a parser it calls)          *)
(*   inspects is a sequence of one-character strings; a Go string that is  *)
(*   only copied or compared is a TLA+ string.                             *)
(*   A Go pointer is a sequence of length 0 (nil) or 1 (the pointee).      *)
(*   A Go error is a record; NoError is the nil error.                     *)
(***************************************************************************)
EXTENDS Integers, Sequences, FiniteSets, TLC

VARIABLES
  \* delete.MySQL
  dConfig, dPc, dAnswer, dCalls, dClientResult, dRet,
  \* provision.MySQL
  pConfig, pPc, pBody, pCalls, pClientResult, pRet,
  \* list.Versions and the VersionsList it returns
  vConfig, vPc, vEngines, vIdx, catalog, vRet, vOut,
  \* password.Reset and the Kubernetes secrets it writes
  rConfig, rPc, rNs, rNewPassword, rCalls, rSecrets, rRet

dVars == <<dConfig, dPc, dAnswer, dCalls, dClientResult, dRet>>
pVars == <<pConfig, pPc, pBody, pCalls, pClientResult, pRet>>
vVars == <<vConfig, vPc, vEngines, vIdx, catalog, vRet, vOut>>
rVars == <<rConfig, rPc, rNs, rNewPassword, rCalls, rSecrets, rRet>>
vars == <<dVars, pVars, vVars, rVars>>

----------------------------------------------------------------------------
(* Errors *)

NoError == [kind |-> "nil"]

\* errors the Everest client may return from a request
ClientErrors == {[kind |-> "client", code |-> "not-found"],
                 [kind |-> "client", code |-> "server-error"]}

\* error of survey.AskOne (for instance an interrupted terminal)
PromptErrors == {[kind |-> "prompt", code |-> "interrupt"]}

\* errors.Wrap(err, msg) of github.com/pkg/errors
Wrap(err, msg) == [kind |-> "wrap", msg |-> msg, cause |-> err]

----------------------------------------------------------------------------
(* delete.MySQL *)

ClusterNames == {"db-a", "db-b", "db-c", "db-d"}
KubernetesIDs == {"k8s-1", "k8s-2", "k8s-3"}

DeleteConfigs ==
  [Name : ClusterNames, KubernetesID : KubernetesIDs, Force : BOOLEAN]

\* the arguments of the DeleteDBCluster call of line 66
DeleteRequestSwapped(c) ==
  [op |-> "DeleteDBCluster", kubernetesID |-> c.Name, name |-> c.KubernetesID]

DeleteRequest(c) ==
  [op |-> "DeleteDBCluster", kubernetesID |-> c.KubernetesID, name |-> c.Name]

DInit ==
  /\ dConfig \in DeleteConfigs
  /\ dPc = "start"
  /\ dAnswer = "none"
  /\ dCalls = <<>>
  /\ dClientResult = NoError
  /\ dRet = NoError

DIdle ==
  /\ dConfig = [Name |-> "db-a", KubernetesID |-> "k8s-1", Force |-> FALSE]
  /\ dPc = "idle"
  /\ dAnswer = "none"
  /\ dCalls = <<>>
  /\ dClientResult = NoError
  /\ dRet = NoError

\* lines 49-63 with Force set: the prompt is skipped
DeleteForce ==
  /\ dPc = "start"
  /\ dConfig.Force
  /\ dPc' = "delete"
  /\ UNCHANGED <<dConfig, dAnswer, dCalls, dClientResult, dRet>>
  /\ UNCHANGED <<pVars, vVars, rVars>>

\* a variant of DeleteAsk that falls through to the request on a negative answer
DeleteAskNoExit ==
  /\ dPc = "start"
  /\ ~dConfig.Force
  /\ \/ \E e \in PromptErrors :
          /\ dAnswer' = "error"
          /\ dRet' = e
          /\ dPc' = "done"
     \/ /\ dAnswer' = "no"
        /\ dPc' = "delete"
        /\ UNCHANGED dRet
     \/ /\ dAnswer' = "yes"
        /\ dPc' = "delete"
        /\ UNCHANGED dRet
  /\ UNCHANGED <<dConfig, dCalls, dClientResult>>
  /\ UNCHANGED <<pVars, vVars, rVars>>

\* lines 49-63 with Force unset: survey.AskOne, then exit on error or on "no"
DeleteAsk ==
  /\ dPc = "start"
  /\ ~dConfig.Force
  /\ \/ \E e \in PromptErrors :
          /\ dAnswer' = "error"
          /\ dRet' = e
          /\ dPc' = "done"
     \/ /\ dAnswer' = "no"
        /\ dRet' = NoError
        /\ dPc' = "done"
     \/ /\ dAnswer' = "yes"
        /\ dPc' = "delete"
        /\ UNCHANGED dRet
  /\ UNCHANGED <<dConfig, dCalls, dClientResult>>
  /\ UNCHANGED <<pVars, vVars, rVars>>

\* lines 65-73: one DeleteDBCluster request, its error returned as it is
DeleteDBCluster ==
  /\ dPc = "delete"
  /\ dCalls' = Append(dCalls, DeleteRequest(dConfig))
  /\ \E r \in ClientErrors \cup {NoError} :
       /\ dClientResult' = r
       /\ dRet' = r
  /\ dPc' = "done"
  /\ UNCHANGED <<dConfig, dAnswer>>
  /\ UNCHANGED <<pVars, vVars, rVars>>

NextDelete ==
  \/ DeleteForce
  \/ DeleteAsk
  \/ DeleteDBCluster

----------------------------------------------------------------------------
(* provision.MySQL *)

MaxNodes == 2

Digits == {"0", "1", "2", "3", "4", "5", "6", "7", "8", "9"}

\* the suffixes of the quantity grammar of k8s.io/apimachinery resource.Quantity:
\* none, the binary SI suffixes and the decimal SI suffixes
QuantitySuffixes ==
  {<<>>, <<"K", "i">>, <<"M", "i">>, <<"G", "i">>, <<"T", "i">>, <<"P", "i">>,
   <<"E", "i">>, <<"n">>, <<"u">>, <<"m">>, <<"k">>, <<"M">>, <<"G">>, <<"T">>,
   <<"P">>, <<"E">>}

\* length of the longest prefix of s made of digits
DigitPrefixLen(s) ==
  CHOOSE n \in 0..Len(s) :
    /\ \A i \in 1..n : s[i] \in Digits
    /\ n < Len(s) => s[n + 1] \notin Digits

\* resource.ParseQuantity (lines 153, 158, 163) on the unsigned integer quantities
\* <digits><suffix>: the number, the suffix, or the parser's format error
ParseQuantity(s) ==
  LET n == DigitPrefixLen(s)
      suffix == SubSeq(s, n + 1, Len(s))
  IN IF n >= 1 /\ suffix \in QuantitySuffixes
     THEN [ok |-> TRUE, number |-> SubSeq(s, 1, n), suffix |-> suffix,
           err |-> NoError]
     ELSE [ok |-> FALSE, number |-> <<>>, suffix |-> <<>>,
           err |-> [kind |-> "quantity", code |-> "format-wrong"]]

\* Quantity.MarshalJSON: the quantity written back as <digits><suffix>
QuantityString(q) == q.number \o q.suffix

\* lines 169-173 without the "latest" case
NormalizeVersionKeep(version) == version

\* lines 169-173: "latest" becomes the empty string
NormalizeVersion(version) == IF version = "latest" THEN "" ELSE version

\* lines 168-209: the everestv1alpha.DatabaseCluster built from the configuration
Payload(c, cpu, memory, disk) ==
  [apiVersion |-> "everest.percona.com/v1alpha1",
   kind |-> "DatabaseCluster",
   name |-> c.Name,
   engineType |-> "pxc",
   engineReplicas |-> c.Nodes,
   engineVersion |-> NormalizeVersion(c.DB.Version),
   storageSize |-> disk,
   cpu |-> cpu,
   memory |-> memory,
   proxyType |-> "haproxy",
   proxyReplicas |-> c.Nodes,
   exposeType |-> IF c.ExternalAccess THEN "external" ELSE "internal"]

JSONKeys ==
  {"apiVersion", "kind", "metadata.name", "spec.engine.type",
   "spec.engine.replicas", "spec.engine.version", "spec.engine.storage.size",
   "spec.engine.resources.cpu", "spec.engine.resources.memory",
   "spec.proxy.type", "spec.proxy.replicas", "spec.proxy.expose.type"}

\* json.Marshal of line 215: the JSON object as a map from key paths to
\* values; an empty engine version is left out (the field is omitempty)
Marshal(payload) ==
  LET keys == IF payload.engineVersion = ""
              THEN JSONKeys \ {"spec.engine.version"} ELSE JSONKeys
  IN [k \in keys |->
       CASE k = "apiVersion" -> payload.apiVersion
         [] k = "kind" -> payload.kind
         [] k = "metadata.name" -> payload.name
         [] k = "spec.engine.type" -> payload.engineType
         [] k = "spec.engine.replicas" -> payload.engineReplicas
         [] k = "spec.engine.version" -> payload.engineVersion
         [] k = "spec.engine.storage.size" -> QuantityString(payload.storageSize)
         [] k = "spec.engine.resources.cpu" -> QuantityString(payload.cpu)
         [] k = "spec.engine.resources.memory" -> QuantityString(payload.memory)
         [] k = "spec.proxy.type" -> payload.proxyType
         [] k = "spec.proxy.replicas" -> payload.proxyReplicas
         [] k = "spec.proxy.expose.type" -> payload.exposeType]

\* json.Unmarshal of line 223 into client.DatabaseCluster: a key the JSON
\* object lacks leaves the zero value of its field
Unmarshal(json) ==
  LET str(k) == IF k \in DOMAIN json THEN json[k] ELSE ""
      int(k) == IF k \in DOMAIN json THEN json[k] ELSE 0
      qty(k) == IF k \in DOMAIN json THEN json[k] ELSE <<>>
  IN [apiVersion |-> str("apiVersion"),
      kind |-> str("kind"),
      name |-> str("metadata.name"),
      engineType |-> str("spec.engine.type"),
      engineReplicas |-> int("spec.engine.replicas"),
      version |-> str("spec.engine.version"),
      storageSize |-> qty("spec.engine.storage.size"),
      cpu |-> qty("spec.engine.resources.cpu"),
      memory |-> qty("spec.engine.resources.memory"),
      proxyType |-> str("spec.proxy.type"),
      proxyReplicas |-> int("spec.proxy.replicas"),
      exposeType |-> str("spec.proxy.expose.type")]

\* lines 214-229; marshalling these payloads cannot fail
convertPayload(payload) ==
  [ok |-> TRUE, body |-> <<Unmarshal(Marshal(payload))>>, err |-> NoError]

ZeroQuantity == [ok |-> TRUE, number |-> <<"0">>, suffix |-> <<>>, err |-> NoError]

\* a variant of prepareBody that does not look at the result of parsing Memory
prepareBodyMemoryUnchecked(c) ==
  LET cpu == ParseQuantity(c.CPU)
      memory == ParseQuantity(c.Memory)
      disk == ParseQuantity(c.Disk)
  IN IF ~cpu.ok
     THEN [ok |-> FALSE, body |-> <<>>, err |-> Wrap(cpu.err, "cannot parse cpu")]
     ELSE IF ~disk.ok
     THEN [ok |-> FALSE, body |-> <<>>,
           err |-> Wrap(disk.err, "cannot parse disk storage")]
     ELSE convertPayload(Payload(c, cpu, IF memory.ok THEN memory ELSE ZeroQuantity,
                                 disk))

\* lines 152-212
prepareBody(c) ==
  LET cpu == ParseQuantity(c.CPU)
      memory == ParseQuantity(c.Memory)
      disk == ParseQuantity(c.Disk)
  IN IF ~cpu.ok
     THEN [ok |-> FALSE, body |-> <<>>, err |-> Wrap(cpu.err, "cannot parse cpu")]
     ELSE IF ~memory.ok
     THEN [ok |-> FALSE, body |-> <<>>,
           err |-> Wrap(memory.err, "cannot parse memory")]
     ELSE IF ~disk.ok
     THEN [ok |-> FALSE, body |-> <<>>,
           err |-> Wrap(disk.err, "cannot parse disk storage")]
     ELSE convertPayload(Payload(c, cpu, memory, disk))

\* the strings given for CPU, Memory and Disk: "2", "4Gi", "100Gi", "500m",
\* the empty string and "4Gx"
QuantityInputs ==
  {<<"2">>, <<"4", "G", "i">>, <<"1", "0", "0", "G", "i">>, <<"5", "0", "0", "m">>,
   <<>>, <<"4", "G", "x">>}

VersionInputs == {"latest", "8.0.32-24.2", "Latest", ""}

ProvisionConfigs ==
  [Name : {"db-a", "db-b"}, KubernetesID : {"k8s-1"},
   DB : [Version : VersionInputs], Nodes : 1..MaxNodes,
   CPU : QuantityInputs, Memory : QuantityInputs, Disk : QuantityInputs,
   ExternalAccess : BOOLEAN]

PInit ==
  /\ pConfig \in ProvisionConfigs
  /\ pPc = "start"
  /\ pBody = <<>>
  /\ pCalls = <<>>
  /\ pClientResult = NoError
  /\ pRet = NoError

PIdle ==
  /\ pConfig = [Name |-> "db-a", KubernetesID |-> "k8s-1",
                DB |-> [Version |-> ""], Nodes |-> 1, CPU |-> <<>>,
                Memory |-> <<>>, Disk |-> <<>>, ExternalAccess |-> FALSE]
  /\ pPc = "idle"
  /\ pBody = <<>>
  /\ pCalls = <<>>
  /\ pClientResult = NoError
  /\ pRet = NoError

\* lines 135-139: prepareBody, and the return of its error
ProvisionPrepare ==
  /\ pPc = "start"
  /\ LET r == prepareBody(pConfig)
     IN IF r.ok
        THEN /\ pBody' = r.body
             /\ pPc' = "create"
             /\ UNCHANGED pRet
        ELSE /\ pRet' = r.err
             /\ pPc' = "done"
             /\ UNCHANGED pBody
  /\ UNCHANGED <<pConfig, pCalls, pClientResult>>
  /\ UNCHANGED <<dVars, vVars, rVars>>

\* lines 141-149: one CreateDBCluster request, its error returned as it is
ProvisionCreate ==
  /\ pPc = "create"
  /\ pCalls' = Append(pCalls, [op |-> "CreateDBCluster",
                               kubernetesID |-> pConfig.KubernetesID,
                               body |-> pBody[1]])
  /\ \E r \in ClientErrors \cup {NoError} :
       /\ pClientResult' = r
       /\ pRet' = r
  /\ pPc' = "done"
  /\ UNCHANGED <<pConfig, pBody>>
  /\ UNCHANGED <<dVars, vVars, rVars>>

NextProvision ==
  \/ ProvisionPrepare
  \/ ProvisionCreate

----------------------------------------------------------------------------
(* list.Versions *)

MaxItems == 2

PXC == <<"p", "x", "c">>
PSMDB == <<"p", "s", "m", "d", "b">>
EngineTypes == {PXC, PSMDB}

DigitChars == <<"0", "1", "2", "3", "4", "5", "6", "7", "8", "9">>
LetterChars ==
  <<"a", "b", "c", "d", "e", "f", "g", "h", "i", "j", "k", "l", "m", "n", "o",
    "p", "q", "r", "s", "t", "u", "v", "w", "x", "y", "z">>
Letters == {LetterChars[i] : i \in 1..Len(LetterChars)}

DigitVal(c) == (CHOOSE n \in 1..10 : DigitChars[n] = c) - 1
LetterVal(c) == CHOOSE n \in 1..Len(LetterChars) : LetterChars[n] = c

\* index of the first occurrence of character c in s, 0 when there is none
IndexOf(s, c) ==
  IF \E i \in 1..Len(s) : s[i] = c
  THEN CHOOSE i \in 1..Len(s) : s[i] = c /\ \A j \in 1..(i - 1) : s[j] # c
  ELSE 0

RECURSIVE SplitDots(_)
\* strings.Split(s, ".")
SplitDots(s) ==
  LET i == IndexOf(s, ".")
  IN IF i = 0 THEN <<s>>
     ELSE <<SubSeq(s, 1, i - 1)>> \o SplitDots(SubSeq(s, i + 1, Len(s)))

RECURSIVE ToInt(_)
\* strconv.ParseInt of a string of digits
ToInt(ds) ==
  IF ds = <<>> THEN 0
  ELSE ToInt(SubSeq(ds, 1, Len(ds) - 1)) * 10 + DigitVal(ds[Len(ds)])

\* goversion.NewVersion (line 96) on the strings [v]N(.N)*[-letters]: the
\* numeric segments padded to three, the pre-release tag and the original
\* string, or the parser's error
NewVersion(s) ==
  LET body == IF Len(s) > 0 /\ s[1] = "v" THEN Tail(s) ELSE s
      dash == IndexOf(body, "-")
      core == IF dash = 0 THEN body ELSE SubSeq(body, 1, dash - 1)
      pre == IF dash = 0 THEN <<>> ELSE SubSeq(body, dash + 1, Len(body))
      parts == SplitDots(core)
      wellFormed ==
        /\ \A i \in 1..Len(parts) :
             /\ parts[i] # <<>>
             /\ \A j \in 1..Len(parts[i]) : parts[i][j] \in Digits
        /\ dash # 0 => pre # <<>>
        /\ \A j \in 1..Len(pre) : pre[j] \in Letters
      nums == [i \in 1..Len(parts) |-> ToInt(parts[i])]
      padded == [i \in 1..(IF Len(nums) < 3 THEN 3 ELSE Len(nums)) |->
                   IF i <= Len(nums) THEN nums[i] ELSE 0]
  IN IF wellFormed
     THEN [ok |-> TRUE, segments |-> padded, pre |-> pre, original |-> s]
     ELSE [ok |-> FALSE, segments |-> <<>>, pre |-> <<>>, original |-> s]

VersionError(s) == [kind |-> "version", code |-> "malformed", value |-> s]

RECURSIVE CompareSegments(_, _)
CompareSegments(a, b) ==
  IF a = <<>> /\ b = <<>> THEN 0
  ELSE LET x == IF a = <<>> THEN 0 ELSE Head(a)
           y == IF b = <<>> THEN 0 ELSE Head(b)
       IN IF x < y THEN -1
          ELSE IF x > y THEN 1
          ELSE CompareSegments(IF a = <<>> THEN a ELSE Tail(a),
                               IF b = <<>> THEN b ELSE Tail(b))

RECURSIVE CompareLetters(_, _)
\* comparison of two Go strings of letters
CompareLetters(p, q) ==
  IF p = <<>> /\ q = <<>> THEN 0
  ELSE IF p = <<>> THEN -1
  ELSE IF q = <<>> THEN 1
  ELSE IF LetterVal(Head(p)) < LetterVal(Head(q)) THEN -1
  ELSE IF LetterVal(Head(p)) > LetterVal(Head(q)) THEN 1
  ELSE CompareLetters(Tail(p), Tail(q))

\* Version.Compare: the segments first; then a version without pre-release
\* tag is above one with a tag, and two tags compare as strings
Compare(a, b) ==
  LET c == CompareSegments(a.segments, b.segments)
  IN IF c # 0 THEN c
     ELSE IF a.pre = b.pre THEN 0
     ELSE IF a.pre = <<>> THEN 1
     ELSE IF b.pre = <<>> THEN -1
     ELSE CompareLetters(a.pre, b.pre)

\* Version.LessThan, the Less of goversion.Collection
LessThan(a, b) == Compare(a, b) < 0

RECURSIVE SortFrom(_, _, _)
\* the arrangements of the elements seq[i], i in idx, that a sort may leave:
\* no element is followed by one that the order (descending or ascending)
\* puts strictly before it
SortFrom(seq, idx, descending) ==
  LET before(a, b) == IF descending THEN LessThan(b, a) ELSE LessThan(a, b)
      first == {j \in idx : \A k \in idx : ~before(seq[k], seq[j])}
  IN IF idx = {} THEN {<<>>}
     ELSE UNION {LET i == CHOOSE j \in first : seq[j] = v
                 IN {<<v>> \o t : t \in SortFrom(seq, idx \ {i}, descending)} :
                 v \in {seq[j] : j \in first}}

\* sort.Sort(versions), the sort of line 44 without sort.Reverse
SortedAsc(versions) == SortFrom(versions, 1..Len(versions), FALSE)

\* sort.Sort(sort.Reverse(versions)) of line 44: sort.Sort is not stable, so
\* versions that compare equal end in any order
SortedDesc(versions) == SortFrom(versions, 1..Len(versions), TRUE)

\* the version strings the engines list: "1.0.0", "2.1.0", "1.9.9", "1.0",
\* "1.0.0-rc" and "latest"
V100 == <<"1", ".", "0", ".", "0">>
V210 == <<"2", ".", "1", ".", "0">>
V199 == <<"1", ".", "9", ".", "9">>
V10 == <<"1", ".", "0">>
V100rc == <<"1", ".", "0", ".", "0", "-", "r", "c">>
VLatest == <<"l", "a", "t", "e", "s", "t">>

\* the maps Status.AvailableVersions.Engine of the engines, by their keys
EngineMaps == {{}, {V100, V210, V199}, {V10, V100rc}, {V199, VLatest}}

EngineRecords ==
  LET engines == {<<>>} \cup {<<m>> : m \in EngineMaps}
      available == {<<>>} \cup {<<[Engine |-> e]>> : e \in engines}
      statuses == {<<>>} \cup {<<[AvailableVersions |-> a]>> : a \in available}
      specs == {<<>>} \cup {<<[Type |-> t]>> : t \in EngineTypes}
  IN [Spec : specs, Status : statuses]

\* the values of DatabaseEngineList.Items: nil, or up to MaxItems engines
ItemLists ==
  {<<>>} \cup {<<items>> : items \in
                 UNION {[1..n -> EngineRecords] : n \in 0..MaxItems}}

VersionsConfigs == [KubernetesID : {"k8s-1"}, Type : {<<>>} \cup EngineTypes]

EmptyList == [t \in {} |-> <<>>]

VInit ==
  /\ vConfig \in VersionsConfigs
  /\ vPc = "start"
  /\ vEngines = <<>>
  /\ vIdx = 1
  /\ catalog = EmptyList
  /\ vRet = [isNil |-> TRUE, list |-> EmptyList, err |-> NoError]
  /\ vOut = <<>>

VIdle ==
  /\ vConfig = [KubernetesID |-> "k8s-1", Type |-> <<>>]
  /\ vPc = "idle"
  /\ vEngines = <<>>
  /\ vIdx = 1
  /\ catalog = EmptyList
  /\ vRet = [isNil |-> TRUE, list |-> EmptyList, err |-> NoError]
  /\ vOut = <<>>

\* a variant of checkIfSkip that does not apply the type filter
checkIfSkipNoFilter(config, db) ==
  \/ db.Spec = <<>>
  \/ db.Status = <<>>
  \/ db.Status[1].AvailableVersions = <<>>
  \/ db.Status[1].AvailableVersions[1].Engine = <<>>

\* lines 107-121
checkIfSkip(config, db) ==
  IF db.Spec = <<>> THEN TRUE
  ELSE IF config.Type # <<>> /\ db.Spec[1].Type # config.Type THEN TRUE
  ELSE IF \/ db.Status = <<>>
          \/ db.Status[1].AvailableVersions = <<>>
          \/ db.Status[1].AvailableVersions[1].Engine = <<>>
  THEN TRUE
  ELSE FALSE

\* the orders in which a range over a map with these keys may visit them
RangeOrders(keys) ==
  {o \in [1..Cardinality(keys) -> keys] :
     \A i, j \in 1..Cardinality(keys) : i # j => o[i] # o[j]}

\* lines 69-81: the request for the engines, the return of its error, and
\* the empty list returned when the answer has no items
ListDatabaseEngines ==
  /\ vPc = "start"
  /\ \/ \E e \in ClientErrors :
          /\ vRet' = [isNil |-> TRUE, list |-> EmptyList, err |-> e]
          /\ vPc' = "done"
          /\ UNCHANGED <<vEngines, catalog>>
     \/ \E items \in ItemLists :
          IF items = <<>>
          THEN /\ vRet' = [isNil |-> FALSE, list |-> EmptyList, err |-> NoError]
               /\ catalog' = EmptyList
               /\ vPc' = "done"
               /\ UNCHANGED vEngines
          ELSE /\ vEngines' = items[1]
               /\ catalog' = EmptyList
               /\ vPc' = "parse"
               /\ UNCHANGED vRet
  /\ UNCHANGED <<vConfig, vIdx, vOut>>
  /\ UNCHANGED <<dVars, pVars, rVars>>

\* lines 95-101 without the return of the parse error: a version that does
\* not parse is left out
AppendVersionsLenient(bucket, order) ==
  LET parsed == [i \in 1..Len(order) |-> NewVersion(order[i])]
      good == SelectSeq(parsed, LAMBDA ver : ver.ok)
  IN [ok |-> TRUE, bucket |-> bucket \o good, err |-> NoError]

\* lines 95-101: the versions of one engine appended to its bucket in the
\* order the range visits them, up to the first that does not parse
AppendVersions(bucket, order) ==
  LET parsed == [i \in 1..Len(order) |-> NewVersion(order[i])]
      bad == {i \in 1..Len(order) : ~parsed[i].ok}
  IN IF bad = {}
     THEN [ok |-> TRUE, bucket |-> bucket \o parsed, err |-> NoError]
     ELSE LET first == CHOOSE i \in bad : \A j \in bad : i <= j
          IN [ok |-> FALSE, bucket |-> <<>>, err |-> VersionError(order[first])]

\* lines 85-102: one iteration of the loop over the engines
ParseEngine ==
  /\ vPc = "parse"
  /\ vIdx <= Len(vEngines)
  /\ LET db == vEngines[vIdx]
     IN IF checkIfSkip(vConfig, db)
        THEN /\ vIdx' = vIdx + 1
             /\ UNCHANGED <<catalog, vRet, vPc>>
        ELSE LET engineType == db.Spec[1].Type
                 bucket == IF engineType \in DOMAIN catalog
                           THEN catalog[engineType] ELSE <<>>
             IN \E order \in RangeOrders(db.Status[1].AvailableVersions[1].Engine[1]) :
                  LET r == AppendVersions(bucket, order)
                  IN IF r.ok
                     THEN /\ catalog' =
                               [t \in DOMAIN catalog \cup {engineType} |->
                                  IF t = engineType THEN r.bucket ELSE catalog[t]]
                          /\ vIdx' = vIdx + 1
                          /\ UNCHANGED <<vRet, vPc>>
                     ELSE /\ vRet' = [isNil |-> TRUE, list |-> EmptyList,
                                      err |-> r.err]
                          /\ catalog' = EmptyList
                          /\ vPc' = "done"
                          /\ UNCHANGED vIdx
  /\ UNCHANGED <<vConfig, vEngines, vOut>>
  /\ UNCHANGED <<dVars, pVars, rVars>>

\* line 104: the list is returned; vRet.list keeps the list as it was then
ParseReturn ==
  /\ vPc = "parse"
  /\ vIdx > Len(vEngines)
  /\ vRet' = [isNil |-> FALSE, list |-> catalog, err |-> NoError]
  /\ vPc' = "done"
  /\ UNCHANGED <<vConfig, vEngines, vIdx, catalog, vOut>>
  /\ UNCHANGED <<dVars, pVars, rVars>>

Dashes == <<"-", "-", "-", "-", "-">>

Originals(versions) == [i \in 1..Len(versions) |-> versions[i].original]

RECURSIVE Render(_, _)
\* the elements of out (lines 40-48) for the engines taken in this order
Render(order, list) ==
  IF order = <<>> THEN <<>>
  ELSE <<Dashes, Head(order), Dashes>> \o Originals(list[Head(order)])
         \o Render(Tail(order), list)

RECURSIVE SortedLists(_)
\* the lists that sorting every bucket of list (line 44) may leave
SortedLists(list) ==
  IF DOMAIN list = {} THEN {list}
  ELSE LET t == CHOOSE u \in DOMAIN list : TRUE
           rest == [u \in DOMAIN list \ {t} |-> list[u]]
       IN {[u \in DOMAIN list |-> IF u = t THEN s ELSE r[u]] :
             s \in SortedDesc(list[t]), r \in SortedLists(rest)}

\* lines 39-51 on the list Run returned. versions is a slice that shares its
\* array with the slice the map holds, so the sort of line 44 reorders the
\* bucket of the list itself. vOut holds the elements strings.Join joins
\* with "\n".
String ==
  /\ vPc = "done"
  /\ ~vRet.isNil
  /\ \E order \in RangeOrders(DOMAIN catalog) :
       \E sorted \in SortedLists(catalog) :
         /\ catalog' = sorted
         /\ vOut' = <<Render(order, sorted)>>
  /\ UNCHANGED <<vConfig, vPc, vEngines, vIdx, vRet>>
  /\ UNCHANGED <<dVars, pVars, rVars>>

NextVersions ==
  \/ ListDatabaseEngines
  \/ ParseEngine
  \/ ParseReturn
  \/ String

----------------------------------------------------------------------------
(* password.Reset *)

PasswordLen == 128
Pbkdf2Iterations == 4096
Pbkdf2KeyLen == 32

passwordSecretName == "everest-password"

Namespaces == {"everest", "percona-everest", "default"}
UIDs == {"uid-1", "uid-2", "uid-3"}

KubeErrors == {[kind |-> "kube", code |-> "not-found"],
               [kind |-> "kube", code |-> "forbidden"]}

\* errors.Join(err, errors.New(msg))
Join(err, msg) == [kind |-> "join", errs |-> <<err, [kind |-> "new", msg |-> msg]>>]

\* the strings uniuri.NewLen(PasswordLen) may return (line 93), each named
\* rather than spelled out
NewPasswords ==
  {[text |-> t, len |-> PasswordLen] : t \in {"pw-1", "pw-2", "pw-3"}}

\* pbkdf2.Key(password, salt, iter, keyLen, sha256.New) (line 95) as a term:
\* keyLen bytes that the password, the salt and the iteration count determine
Pbkdf2Key(password, salt, iter, keyLen) ==
  [kdf |-> "pbkdf2-hmac-sha256", password |-> password, salt |-> salt,
   iter |-> iter, len |-> keyLen]

\* the secret of lines 97-110 with the new password itself as its data
NewSecretPlain(config, ns, newPassword) ==
  [apiVersion |-> "v1", kind |-> "Secret", name |-> passwordSecretName,
   namespace |-> config.Namespace, type |-> "Opaque",
   data |-> [password |-> newPassword]]

\* lines 94-110: the secret that holds the hash of the new password, salted
\* with the UID of the namespace
NewSecret(config, ns, newPassword) ==
  [apiVersion |-> "v1", kind |-> "Secret", name |-> passwordSecretName,
   namespace |-> config.Namespace, type |-> "Opaque",
   data |-> [password |-> Pbkdf2Key(newPassword, ns.UID, Pbkdf2Iterations,
                                    Pbkdf2KeyLen)]]

\* a secret an earlier reset may have left in the namespace
OldSecret(namespace) ==
  [apiVersion |-> "v1", kind |-> "Secret", name |-> passwordSecretName,
   namespace |-> namespace, type |-> "Opaque",
   data |-> [password |-> Pbkdf2Key([text |-> "pw-0", len |-> PasswordLen],
                                    "uid-1", Pbkdf2Iterations, Pbkdf2KeyLen)]]

NoResponse == [resp |-> <<>>, err |-> NoError]

RInit ==
  /\ rConfig \in [Namespace : Namespaces]
  /\ rPc = "start"
  /\ rNs = <<>>
  /\ rNewPassword = <<>>
  /\ rCalls = <<>>
  /\ rSecrets \in {{}, {OldSecret(rConfig.Namespace)}}
  /\ rRet = NoResponse

RIdle ==
  /\ rConfig = [Namespace |-> "default"]
  /\ rPc = "idle"
  /\ rNs = <<>>
  /\ rNewPassword = <<>>
  /\ rCalls = <<>>
  /\ rSecrets = {}
  /\ rRet = NoResponse

\* lines 88-91
GetNamespace ==
  /\ rPc = "start"
  /\ \/ \E e \in KubeErrors :
          /\ rCalls' = Append(rCalls, [op |-> "GetNamespace",
                                       name |-> rConfig.Namespace, err |-> e])
          /\ rRet' = [resp |-> <<>>,
                      err |-> Join(e, "could not get namespace from Kubernetes")]
          /\ rPc' = "done"
          /\ UNCHANGED rNs
     \/ \E uid \in UIDs :
          /\ rCalls' = Append(rCalls, [op |-> "GetNamespace",
                                       name |-> rConfig.Namespace,
                                       err |-> NoError])
          /\ rNs' = <<[Name |-> rConfig.Namespace, UID |-> uid]>>
          /\ rPc' = "generate"
          /\ UNCHANGED rRet
  /\ UNCHANGED <<rConfig, rNewPassword, rSecrets>>
  /\ UNCHANGED <<dVars, pVars, vVars>>

\* line 93
GeneratePassword ==
  /\ rPc = "generate"
  /\ \E pw \in NewPasswords : rNewPassword' = <<pw>>
  /\ rPc' = "set"
  /\ UNCHANGED <<rConfig, rNs, rCalls, rSecrets, rRet>>
  /\ UNCHANGED <<dVars, pVars, vVars>>

\* a variant of SetSecret that returns the password whatever SetSecret returns
SetSecretErrorIgnored ==
  /\ rPc = "set"
  /\ LET secret == NewSecret(rConfig, rNs[1], rNewPassword[1])
     IN \E e \in KubeErrors \cup {NoError} :
          /\ rCalls' = Append(rCalls, [op |-> "SetSecret", secret |-> secret,
                                       err |-> e])
          /\ rSecrets' = IF e = NoError
                         THEN {x \in rSecrets : <<x.namespace, x.name>> #
                                 <<secret.namespace, secret.name>>} \cup {secret}
                         ELSE rSecrets
          /\ rRet' = [resp |-> <<[Password |-> rNewPassword[1]]>>, err |-> NoError]
  /\ rPc' = "done"
  /\ UNCHANGED <<rConfig, rNs, rNewPassword>>
  /\ UNCHANGED <<dVars, pVars, vVars>>

\* lines 94-115: the hash, the SetSecret call, which replaces the secret of
\* that name in the namespace when it succeeds, and the return
SetSecret ==
  /\ rPc = "set"
  /\ LET secret == NewSecret(rConfig, rNs[1], rNewPassword[1])
     IN \/ \E e \in KubeErrors :
             /\ rCalls' = Append(rCalls, [op |-> "SetSecret", secret |-> secret,
                                          err |-> e])
             /\ rRet' = [resp |-> <<>>,
                         err |-> Join(e, "could not update password in Kubernetes")]
             /\ UNCHANGED rSecrets
        \/ /\ rCalls' = Append(rCalls, [op |-> "SetSecret", secret |-> secret,
                                        err |-> NoError])
           /\ rSecrets' = {x \in rSecrets : <<x.namespace, x.name>> #
                             <<secret.namespace, secret.name>>} \cup {secret}
           /\ rRet' = [resp |-> <<[Password |-> rNewPassword[1]]>>, err |-> NoError]
  /\ rPc' = "done"
  /\ UNCHANGED <<rConfig, rNs, rNewPassword>>
  /\ UNCHANGED <<dVars, pVars, vVars>>

NextReset ==
  \/ GetNamespace
  \/ GeneratePassword
  \/ SetSecret

----------------------------------------------------------------------------
(* Specifications: one command runs, the others stay idle *)

InitDelete == DInit /\ PIdle /\ VIdle /\ RIdle
SpecDelete == InitDelete /\ [][NextDelete]_vars

InitProvision == DIdle /\ PInit /\ VIdle /\ RIdle
SpecProvision == InitProvision /\ [][NextProvision]_vars

InitVersions == DIdle /\ PIdle /\ VInit /\ RIdle
SpecVersions == InitVersions /\ [][NextVersions]_vars

InitReset == DIdle /\ PIdle /\ VIdle /\ RInit
SpecReset == InitReset /\ [][NextReset]_vars

----------------------------------------------------------------------------
(* delete.MySQL.Run: the confirmation gate *)

\* C1: when Force is false and the operator answers the prompt with no,
\* Run has returned nil and no DeleteDBCluster request was made.
DeclineDeletesNothing ==
  (~dConfig.Force /\ dAnswer = "no") =>
    (dPc = "done" /\ dCalls = <<>> /\ dRet = NoError)

DeclinedRun == dPc = "done" /\ ~dConfig.Force /\ dAnswer = "no"

\* C2: there is never more than one DeleteDBCluster request, and when Force
\* is true or the operator confirmed, Run ends after exactly one request,
\* made with the configured KubernetesID and Name, and returns what that
\* request returned.
ConfirmedDeletesOnce ==
  /\ Len(dCalls) <= 1
  /\ (dPc = "done" /\ (dConfig.Force \/ dAnswer = "yes")) =>
       /\ dCalls = <<[op |-> "DeleteDBCluster",
                      kubernetesID |-> dConfig.KubernetesID,
                      name |-> dConfig.Name]>>
       /\ dRet = dClientResult

ConfirmedRunFailed ==
  dPc = "done" /\ ~dConfig.Force /\ dAnswer = "yes" /\ dRet \in ClientErrors

----------------------------------------------------------------------------
(* provision.MySQL.Run *)

\* the message that names the first of CPU, Memory and Disk that is no
\* quantity, "" when all three are
FirstUnparsable(c) ==
  IF ~ParseQuantity(c.CPU).ok THEN "cannot parse cpu"
  ELSE IF ~ParseQuantity(c.Memory).ok THEN "cannot parse memory"
  ELSE IF ~ParseQuantity(c.Disk).ok THEN "cannot parse disk storage"
  ELSE ""

\* C3: CreateDBCluster is requested only when CPU, Memory and Disk all
\* parse; when one of them does not, no request is ever made and Run
\* returns an error that names the first that fails, in the order cpu,
\* memory, disk.
UnparsableQuantityStopsRun ==
  /\ pCalls # <<>> => FirstUnparsable(pConfig) = ""
  /\ FirstUnparsable(pConfig) # "" =>
       /\ pCalls = <<>>
       /\ pPc \in {"start", "done"}
       /\ pPc = "done" =>
            /\ pRet.kind = "wrap"
            /\ pRet.msg = FirstUnparsable(pConfig)
            /\ pRet.cause.kind = "quantity"

MemoryAndDiskUnparsable ==
  /\ pPc = "done"
  /\ ParseQuantity(pConfig.CPU).ok
  /\ ~ParseQuantity(pConfig.Memory).ok
  /\ ~ParseQuantity(pConfig.Disk).ok
  /\ pRet.kind = "wrap"
  /\ pRet.msg = "cannot parse memory"

\* C4: the payload of every CreateDBCluster request has the empty string as
\* its version when DB.Version is "latest", and DB.Version itself when that
\* is any other non-empty string.
LatestIsEmptyVersion ==
  \A i \in 1..Len(pCalls) :
    /\ pConfig.DB.Version = "latest" => pCalls[i].body.version = ""
    /\ (pConfig.DB.Version # "latest" /\ pConfig.DB.Version # "") =>
         pCalls[i].body.version = pConfig.DB.Version

LatestRequested ==
  /\ pCalls # <<>>
  /\ pConfig.DB.Version = "latest"
  /\ pCalls[1].body.version = ""

----------------------------------------------------------------------------
(* list.Versions.Run and VersionsList.String *)

\* an engine the resolver is to skip: no spec, a type other than the one
\* asked for, no status, no available versions or no engine versions
Skipped(db) ==
  \/ db.Spec = <<>>
  \/ vConfig.Type # <<>> /\ db.Spec[1].Type # vConfig.Type
  \/ db.Status = <<>>
  \/ db.Status[1].AvailableVersions = <<>>
  \/ db.Status[1].AvailableVersions[1].Engine = <<>>

VersionStringsOf(db) == db.Status[1].AvailableVersions[1].Engine[1]

KeptTypes ==
  {vEngines[i].Spec[1].Type : i \in {j \in 1..Len(vEngines) : ~Skipped(vEngines[j])}}

\* C5: skipped engines add nothing and cause no error: the list has buckets
\* for types of engines that are not skipped only, a list returned without
\* error has exactly those buckets, and a parse error is the error of a
\* version string of an engine that is not skipped.
SkippedEnginesLeaveNoBucket ==
  /\ DOMAIN catalog \subseteq KeptTypes
  /\ (vPc = "done" /\ vRet.err = NoError) =>
       (~vRet.isNil /\ DOMAIN catalog = KeptTypes)
  /\ (vPc = "done" /\ vRet.err.kind = "version") =>
       \E i \in 1..Len(vEngines) :
         /\ ~Skipped(vEngines[i])
         /\ vRet.err.value \in VersionStringsOf(vEngines[i])

FilterKeepsPXCOnly ==
  /\ vPc = "done"
  /\ vRet.err = NoError
  /\ vConfig.Type = PXC
  /\ Len(vEngines) = 2
  /\ vEngines[1].Spec = <<[Type |-> PXC]>>
  /\ vEngines[2].Spec = <<[Type |-> PSMDB]>>
  /\ vEngines[1].Status = <<[AvailableVersions |-> <<[Engine |-> <<{V100, V210, V199}>>]>>]>>
  /\ vEngines[2].Status = vEngines[1].Status
  /\ DOMAIN catalog = {PXC}

\* C6: when a version string of an engine that is not skipped does not
\* parse, Run returns the parse error and no list.
UnparsableVersionFailsRun ==
  (/\ vPc = "done"
   /\ \E i \in 1..Len(vEngines) :
        /\ ~Skipped(vEngines[i])
        /\ \E s \in VersionStringsOf(vEngines[i]) : ~NewVersion(s).ok) =>
    /\ vRet.isNil
    /\ vRet.err.kind = "version"
    /\ ~NewVersion(vRet.err.value).ok

FailedAfterParsedEngine ==
  /\ vPc = "done"
  /\ Len(vEngines) = 2
  /\ vEngines[1] = [Spec |-> <<[Type |-> PXC]>>,
                    Status |-> <<[AvailableVersions |->
                                    <<[Engine |-> <<{V100, V210, V199}>>]>>]>>]
  /\ vEngines[2] = [Spec |-> <<[Type |-> PXC]>>,
                    Status |-> <<[AvailableVersions |->
                                    <<[Engine |-> <<{V199, VLatest}>>]>>]>>]
  /\ vRet.isNil
  /\ vRet.err = VersionError(VLatest)

Count(seq, x) == Cardinality({i \in 1..Len(seq) : seq[i] = x})

\* C7: the rendering holds, for every bucket of the list Run returned, the
\* header of the bucket followed by the versions of the bucket, each as often
\* as the bucket holds it, and no version before one that is newer.
RenderedNewestFirst ==
  vOut # <<>> =>
    LET out == vOut[1]
    IN \A t \in DOMAIN vRet.list :
         \E p \in 1..Len(out) :
           LET n == Len(vRet.list[t])
               block == SubSeq(out, p + 3, p + 2 + n)
           IN /\ p + 2 + n <= Len(out)
              /\ out[p] = Dashes /\ out[p + 1] = t /\ out[p + 2] = Dashes
              /\ \A i \in 1..n :
                   Count(block, block[i]) =
                     Count(Originals(vRet.list[t]), block[i])
              /\ \A i, j \in 1..n :
                   i < j => ~LessThan(NewVersion(block[i]), NewVersion(block[j]))

RenderedExample ==
  /\ vRet.list = [t \in {PXC} |->
                    <<NewVersion(V100), NewVersion(V210), NewVersion(V199)>>]
  /\ vOut = <<(<<Dashes, PXC, Dashes, V210, V199, V100>>)>>

\* C8: the list is not changed once Run has returned it: whatever has been
\* rendered since, every bucket holds its versions in the order it held
\* them when Run returned.
ListUnchangedAfterRun ==
  (vPc = "done" /\ ~vRet.isNil) => catalog = vRet.list

----------------------------------------------------------------------------
(* password.Reset.Run *)

\* C9: every secret handed to SetSecret is named everest-password, is in the
\* configured namespace and has the one data key password, whose value is
\* the key derived from the new password with the UID of the namespace as
\* salt; no stored secret holds a password in plain text; and the response
\* holds the new password itself.
SecretHoldsHashOnly ==
  /\ \A i \in 1..Len(rCalls) :
       rCalls[i].op = "SetSecret" =>
         LET secret == rCalls[i].secret
         IN /\ secret.name = "everest-password"
            /\ secret.namespace = rConfig.Namespace
            /\ DOMAIN secret.data = {"password"}
            /\ secret.data.password =
                 Pbkdf2Key(rNewPassword[1], rNs[1].UID, Pbkdf2Iterations,
                           Pbkdf2KeyLen)
            /\ secret.data.password # rNewPassword[1]
  /\ \A x \in rSecrets : \A k \in DOMAIN x.data : x.data[k] \notin NewPasswords
  /\ rRet.resp # <<>> =>
       (rNewPassword # <<>> /\ rRet.resp[1].Password = rNewPassword[1])

PasswordReset ==
  /\ rPc = "done"
  /\ rRet.resp # <<>>
  /\ rRet.resp[1].Password \in NewPasswords
  /\ \E x \in rSecrets :
       x.data.password = Pbkdf2Key(rRet.resp[1].Password, rNs[1].UID,
                                   Pbkdf2Iterations, Pbkdf2KeyLen)

\* C10: the requests are GetNamespace, then SetSecret, each at most once;
\* when GetNamespace fails SetSecret is not requested and Run returns an
\* error and no response; when SetSecret fails Run returns an error and no
\* response; a response is returned only when both succeeded.
ResetCallsInOrder ==
  /\ Len(rCalls) <= 2
  /\ Len(rCalls) >= 1 => rCalls[1].op = "GetNamespace"
  /\ Len(rCalls) = 2 => rCalls[2].op = "SetSecret"
  /\ (Len(rCalls) >= 1 /\ rCalls[1].err # NoError) =>
       /\ Len(rCalls) = 1
       /\ rPc = "done"
       /\ rRet.resp = <<>>
       /\ rRet.err # NoError
  /\ (Len(rCalls) = 2 /\ rCalls[2].err # NoError) =>
       /\ rPc = "done"
       /\ rRet.resp = <<>>
       /\ rRet.err # NoError
  /\ rRet.resp # <<>> =>
       /\ Len(rCalls) = 2
       /\ rCalls[1].err = NoError
       /\ rCalls[2].err = NoError
       /\ rRet.err = NoError
  /\ rPc = "done" => (rRet.resp # <<>> \/ rRet.err # NoError)

SetSecretFailed ==
  /\ rPc = "done"
  /\ Len(rCalls) = 2
  /\ rCalls[2].err \in KubeErrors
  /\ rRet.resp = <<>>

====
